---------------------------- MODULE Spec2Model ----------------------------
(***************************************************************************)
(* Bootstrap resampling notebook (src/unnamed/part_000): the estimator     *)
(* fair, the resampler bootstrap_data and the loop bootstrap_function,     *)
(* together with the numpy calls they make (np.unique, np.empty,           *)
(* np.random.choice on the global RandomState).                            *)
(*                                                                         *)
(* Floats are modelled as reduced fractions [num, den]: every float the    *)
(* code produces here is one correctly rounded division of two small       *)
(* integers, so two results are equal floats exactly when the fractions    *)
(* are equal.                                                              *)
(***************************************************************************)
EXTENDS Integers, Sequences, FiniteSets

VARIABLES
    legacy_numpy, \* TRUE: the installed numpy is of the release line the
                  \* notebook was run with (Python 3.5 kernel, old array
                  \* repr), whose choice() rejects every empty array; FALSE:
                  \* a later release, which accepts one when size is 0
    data,         \* the observation array held by the notebook
    orig,         \* history: the contents of data when the notebook started
    rng,          \* np.random's global RandomState: its future output words
    op,           \* the top-level call the notebook cell makes
    pc,           \* position inside that call
    f,            \* bootstrap_function: the estimator argument
    n,            \* bootstrap_function: the repetition count argument
    i,            \* bootstrap_function: the loop variable of range(n)
    result,       \* bootstrap_function: the local array result
    data2,        \* bootstrap_function: the local data2
    ret,          \* what the call returned to the cell
    exc,          \* the exception the call raised, "none" if none
    draws,        \* history: one record per bootstrap_data call
    fcalls,       \* history: the arguments the estimator was invoked on
    estimates,    \* history: one record per fair(data) a cell evaluated
    bias          \* the variable bias of the last cell

vars == <<legacy_numpy, data, orig, rng, op, pc, f, n, i, result, data2,
          ret, exc, draws, fcalls, estimates, bias>>

-----------------------------------------------------------------------------
(* Bounds of the model. *)

\* longest observation array handed to the resampler
MaxLen == 3
\* largest repetition count handed to bootstrap_function
MaxN == 2
\* longest observation array handed to fair directly (SpecFair)
FairLen == 5
\* how often a cell evaluates fair(data)
MaxFairCalls == 2
\* the period of the generator under the mean test (SpecMean)
MeanPeriod == 9

\* the category labels of the coin data (line 85)
Labels == {"H", "T"}

SeqsUpTo(S, k) == UNION {[1..m -> S] : m \in 0..k}

Range(s) == {s[k] : k \in DOMAIN s}

-----------------------------------------------------------------------------
(* Floats. *)

RECURSIVE GCD(_, _)
GCD(a, b) == IF b = 0 THEN a ELSE GCD(b, a % b)

\* the float a / b for integers a >= 0, b > 0
Float(a, b) == [num |-> a \div GCD(a, b), den |-> b \div GCD(a, b)]

\* a slot of np.empty that nothing has written yet: arbitrary memory
Garbage == [num |-> -1, den |-> 0]

FloatLeq(x, y) == x.num * y.den <= y.num * x.den

FloatLess(x, y) == x.num * y.den < y.num * x.den

\* not-a-number
NaN == [num |-> 0, den |-> 0]

IsNumber(x) == x.den > 0

\* x + y and x - y; the sums and differences are modelled by their exact
\* values, rounding is not
FloatAdd(x, y) == Float(x.num * y.den + y.num * x.den, x.den * y.den)

FloatSub(x, y) ==
    IF IsNumber(x) /\ IsNumber(y)
    THEN Float(x.num * y.den - y.num * x.den, x.den * y.den)
    ELSE NaN

\* outcome of a Python call: a value or a raised exception
Value(v) == [exc |-> "none", val |-> v]
Raise(e) == [exc |-> e, val |-> Garbage]

-----------------------------------------------------------------------------
(* numpy. *)

\* np.unique(ar, return_counts=True) zipped into a dict (line 106): the
\* distinct values of ar, each with the number of times it occurs
np_unique(ar) ==
    [k \in Range(ar) |-> Cardinality({j \in DOMAIN ar : ar[j] = k})]

\* dict.get(key, default)
get(d, key, default) == IF key \in DOMAIN d THEN d[key] ELSE default

\* sum(v for k, v in d.items()); the sum of no items is the int 0
RECURSIVE SumOver(_, _)
SumOver(d, keys) ==
    IF keys = {} THEN 0
    ELSE LET k == CHOOSE x \in keys : TRUE
         IN d[k] + SumOver(d, keys \ {k})

sum(d) == SumOver(d, DOMAIN d)

\* a / b of line 107.  With a zero divisor both operands are Python numbers
\* (the default 0.0 and the empty sum 0), so Python raises.
truediv(a, b) ==
    IF b = 0 THEN Raise("ZeroDivisionError") ELSE Value(Float(a, b))

\* variant of np_empty: one slot too many
np_empty_extra(shape) ==
    IF shape < 0 THEN Raise("ValueError")
    ELSE Value([k \in 1..(shape + 1) |-> Garbage])

\* variant of np_empty: a negative shape gives an empty array
np_empty_clamped(shape) == Value([k \in 1..shape |-> Garbage])

\* np.empty(shape, dtype=float): shape slots of unwritten memory; a negative
\* shape raises "negative dimensions are not allowed"
np_empty(shape) ==
    IF shape < 0 THEN Raise("ValueError")
    ELSE Value([k \in 1..shape |-> Garbage])

\* the period of the generator, and the number of values a word can take
Period == MaxLen
Words == 0..(MaxLen - 1)
RngStates == [1..Period -> Words]

\* RandomState.randint(0, pop_size, size) from generator state st: size
\* indices, one per output word, and the state the generator is left in
randint(st, pop_size, size) ==
    [idx   |-> [k \in 1..size |-> st[((k - 1) % Len(st)) + 1] % pop_size],
     state |-> SubSeq(st, (size % Len(st)) + 1, Len(st))
                  \o SubSeq(st, 1, size % Len(st))]

\* np.random.choice(a, size=size) with the global RandomState in state st: a
\* new array
\* a[idx] of size elements of a.  An empty a raises ValueError: always in
\* the legacy build ("a must be non-empty"), and unless no samples are taken
\* in the current one.  The record also carries the generator state and the
\* contents of the argument array a after the call.
choice_from(st, a, size) ==
    IF Len(a) = 0 /\ (legacy_numpy \/ size # 0)
    THEN [exc |-> "ValueError", val |-> <<>>, state |-> st, a |-> a]
    ELSE LET r == randint(st, Len(a), size)
         IN [exc   |-> "none",
             val   |-> [k \in 1..size |-> a[r.idx[k] + 1]],
             state |-> r.state,
             a     |-> a]

\* the call as the code makes it: the generator is np.random's global one
choice(a, size) == choice_from(rng, a, size)

-----------------------------------------------------------------------------
(* The notebook's functions. *)

\* variant of fair: divides by the number of distinct labels, len(dict)
fair_per_label(d) ==
    LET value_counts == np_unique(d)
    IN truediv(get(value_counts, "H", 0), Cardinality(DOMAIN value_counts))

\* variant of fair: an empty input is answered with the default 0.0
fair_default_zero(d) ==
    LET value_counts == np_unique(d)
    IN IF sum(value_counts) = 0 THEN Value(Float(0, 1))
       ELSE truediv(get(value_counts, "H", 0), sum(value_counts))

\* variant of fair: the total is kept in a counter outside the function
\* that earlier calls have left advanced
fair_stale(d) ==
    LET value_counts == np_unique(d)
    IN truediv(get(value_counts, "H", 0),
               sum(value_counts) + Len(estimates))

\* variant of fair: the counts leave out the first element, data[1:]
fair_skip_first(d) ==
    LET value_counts == np_unique(SubSeq(d, 2, Len(d)))
    IN truediv(get(value_counts, "H", 0), sum(value_counts))

\* def fair(data), lines 104-107
fair(d) ==
    LET value_counts == np_unique(d)
    IN truediv(get(value_counts, "H", 0), sum(value_counts))

\* variant of bootstrap_data: the array is first rolled by a count of the
\* calls made so far, a state other than the input and the random source
bootstrap_data_counted(d) ==
    choice([k \in 1..Len(d) |-> d[((k - 1 + Len(draws)) % Len(d)) + 1]],
           Len(d))

\* variant of bootstrap_data: the samples are written back into the input,
\* data[:] = np.random.choice(...)
bootstrap_data_inplace(d) ==
    LET r == choice(d, Len(d)) IN [r EXCEPT !.a = r.val]

\* variant of bootstrap_data: one sample too many
bootstrap_data_extra(d) == choice(d, Len(d) + 1)

\* variant of bootstrap_data_from: a shuffle of the input, sampling without
\* replacement (np.random.permutation)
bootstrap_data_permuted(st, d) ==
    [exc   |-> "none",
     val   |-> [k \in 1..Len(d) |-> d[((k - 1 + st[1]) % Len(d)) + 1]],
     state |-> SubSeq(st, 2, Len(st)) \o SubSeq(st, 1, 1),
     a     |-> d]

\* def bootstrap_data(data), lines 250-255, with the global RandomState in
\* state st; data.shape[0] is Len(d)
bootstrap_data_from(st, d) == choice_from(st, d, Len(d))

\* the call as the code makes it
bootstrap_data(d) == bootstrap_data_from(rng, d)

\* the sum of the elements of an integer array
RECURSIVE IntSum(_)
IntSum(d) == IF d = <<>> THEN 0 ELSE Head(d) + IntSum(Tail(d))

\* the sum of the elements of a float array
RECURSIVE FloatSum(_)
FloatSum(arr) ==
    IF arr = <<>> THEN Float(0, 1) ELSE FloatAdd(Head(arr), FloatSum(Tail(arr)))

\* variant of mean: the total, data.sum()
mean_total(d) == Value(Float(IntSum(d), 1))

\* data.mean() of an integer array (line 389); the mean of an empty array
\* is nan, with a warning
mean(d) ==
    IF Len(d) = 0 THEN Value(NaN) ELSE Value(Float(IntSum(d), Len(d)))

\* arr.mean() of a float array: fb.mean() (line 390), fairs.mean() (line 555)
np_mean(arr) ==
    IF Len(arr) = 0 \/ \E k \in DOMAIN arr : ~IsNumber(arr[k]) THEN NaN
    ELSE LET t == FloatSum(arr) IN Float(t.num, t.den * Len(arr))

\* the estimators handed to bootstrap_function on the coin data: fair
\* (line 408) and lambda data: 1.0 (line 387)
Estimators == {"fair", "const"}

\* f(data2); "mean" is lambda data: data.mean() (line 389)
Apply(g, d) ==
    IF g = "fair" THEN fair(d)
    ELSE IF g = "mean" THEN mean(d)
    ELSE Value(Float(1, 1))

\* variant of InRange: one iteration too many
InRange_inclusive(k, m) == k <= m

\* range(n) still has an element for loop position k (line 365)
InRange(k, m) == k < m

\* variant of SetItem: every value lands in slot 0
SetItem_first(arr, k, v) == [arr EXCEPT ![1] = v]

\* result[k] = v (line 367), k counted from 0
SetItem(arr, k, v) == [arr EXCEPT ![k + 1] = v]

\* the record of one bootstrap_data call
Draw(r, a) == [state |-> rng, a |-> a, exc |-> r.exc, out |-> r.val]

-----------------------------------------------------------------------------
(* The cells. *)

Init ==
    /\ legacy_numpy \in BOOLEAN
    /\ data \in SeqsUpTo(Labels, MaxLen)
    /\ orig = data
    /\ rng \in RngStates
    /\ op = "none"
    /\ pc = "idle"
    /\ f = "none"
    /\ n = 0
    /\ i = 0
    /\ result = <<>>
    /\ data2 = <<>>
    /\ ret = <<>>
    /\ exc = "none"
    /\ draws = <<>>
    /\ fcalls = <<>>
    /\ estimates = <<>>
    /\ bias = Garbage

\* the record of one fair(data) of a cell
Estimate(r, a) == [a |-> a, exc |-> r.exc, val |-> r.val]

\* variant of bias_of: the point estimate is taken on the last resample
bias_of_resample(fairs, d) ==
    LET p == fair(data2)
    IN [exc   |-> p.exc,
        val   |-> IF p.exc = "none" THEN FloatSub(np_mean(fairs), p.val)
                  ELSE Garbage,
        point |-> Estimate(p, data2)]

\* fairs.mean() - fair(data), line 555
bias_of(fairs, d) ==
    LET p == fair(d)
    IN [exc   |-> p.exc,
        val   |-> IF p.exc = "none" THEN FloatSub(np_mean(fairs), p.val)
                  ELSE Garbage,
        point |-> Estimate(p, d)]

\* fair(data), lines 125-128 and 157
Cell_fair ==
    /\ pc = "idle"
    /\ op' = "fair"
    /\ LET r == fair(data)
       IN /\ estimates' = Append(estimates, Estimate(r, data))
          /\ IF r.exc = "none"
             THEN pc' = "returned" /\ ret' = r.val /\ exc' = exc
             ELSE pc' = "raised" /\ ret' = ret /\ exc' = r.exc
    /\ UNCHANGED <<bias, legacy_numpy, data, orig, rng, f, n, i, result, data2,
                   draws, fcalls>>

\* fair(data) evaluated once more by a later cell (line 555), whatever the
\* earlier evaluation ended in
Cell_fair_again ==
    /\ op = "fair"
    /\ pc \in {"returned", "raised"}
    /\ Len(estimates) < MaxFairCalls
    /\ LET r == fair(data)
       IN /\ estimates' = Append(estimates, Estimate(r, data))
          /\ IF r.exc = "none"
             THEN pc' = "returned" /\ ret' = r.val /\ exc' = "none"
             ELSE pc' = "raised" /\ ret' = ret /\ exc' = r.exc
    /\ UNCHANGED <<bias, legacy_numpy, data, orig, rng, op, f, n, i, result,
                   data2, draws, fcalls>>

\* bootstrap_data(test_data), line 274
Cell_bootstrap_data ==
    /\ pc = "idle"
    /\ op' = "bootstrap_data"
    /\ LET r == bootstrap_data(data)
       IN /\ draws' = Append(draws, Draw(r, data))
          /\ rng' = r.state
          /\ data' = r.a
          /\ IF r.exc = "none"
             THEN pc' = "returned" /\ ret' = r.val /\ exc' = exc
             ELSE pc' = "raised" /\ ret' = ret /\ exc' = r.exc
    /\ UNCHANGED <<estimates, bias, legacy_numpy, orig, f, n, i, result, data2, fcalls>>

\* bootstrap_function(data, g, m) up to the loop: line 364
Call_bootstrap_function(g, m) ==
    /\ pc = "idle"
    /\ op' = "bootstrap_function"
    /\ f' = g
    /\ n' = m
    /\ LET e == np_empty(m)
       IN IF e.exc = "none"
          THEN pc' = "for" /\ result' = e.val /\ i' = 0 /\ exc' = exc
          ELSE pc' = "raised" /\ result' = result /\ i' = i /\ exc' = e.exc
    /\ UNCHANGED <<estimates, bias, legacy_numpy, data, orig, rng, data2, ret, draws, fcalls>>

\* variant of LoopSource: every resample after the first is drawn from the
\* resample before it
LoopSource_previous == IF i = 0 THEN data ELSE data2

\* the array line 366 hands to bootstrap_data
LoopSource == data

\* lines 365-366: the loop has another i; data2 = bootstrap_data(data)
LoopResample ==
    /\ pc = "for"
    /\ InRange(i, n)
    /\ LET r == bootstrap_data(LoopSource)
       IN /\ draws' = Append(draws, Draw(r, LoopSource))
          /\ rng' = r.state
          /\ data' = r.a
          /\ IF r.exc = "none"
             THEN pc' = "eval" /\ data2' = r.val /\ exc' = exc
             ELSE pc' = "raised" /\ data2' = data2 /\ exc' = r.exc
    /\ UNCHANGED <<estimates, bias, legacy_numpy, orig, op, f, n, i, result, ret, fcalls>>

\* variant of LoopEvaluate: the loop variable does not advance
LoopEvaluate_no_advance ==
    /\ pc = "eval"
    /\ fcalls' = Append(fcalls, data2)
    /\ LET v == Apply(f, data2)
       IN IF v.exc = "none"
          THEN /\ result' = SetItem(result, i, v.val)
               /\ pc' = "for"
               /\ exc' = exc
          ELSE /\ pc' = "raised"
               /\ exc' = v.exc
               /\ UNCHANGED result
    /\ UNCHANGED <<estimates, bias, legacy_numpy, data, orig, rng, op, f, n,
                   i, data2, ret, draws>>

\* variant of LoopEvaluate: a failing estimator is caught, nan is stored and
\* the loop goes on
LoopEvaluate_swallow ==
    /\ pc = "eval"
    /\ fcalls' = Append(fcalls, data2)
    /\ LET v == Apply(f, data2)
       IN result' = SetItem(result, i, IF v.exc = "none" THEN v.val ELSE NaN)
    /\ i' = i + 1
    /\ pc' = "for"
    /\ UNCHANGED <<estimates, bias, legacy_numpy, data, orig, rng, op, f, n,
                   data2, ret, exc, draws>>

\* line 367: result[i] = f(data2)
LoopEvaluate ==
    /\ pc = "eval"
    /\ fcalls' = Append(fcalls, data2)
    /\ LET v == Apply(f, data2)
       IN IF v.exc = "none"
          THEN /\ result' = SetItem(result, i, v.val)
               /\ i' = i + 1
               /\ pc' = "for"
               /\ exc' = exc
          ELSE /\ pc' = "raised"
               /\ exc' = v.exc
               /\ UNCHANGED <<result, i>>
    /\ UNCHANGED <<estimates, bias, legacy_numpy, data, orig, rng, op, f, n, data2, ret,
                   draws>>

\* line 368: the loop is exhausted; return result
Return ==
    /\ pc = "for"
    /\ ~InRange(i, n)
    /\ pc' = "returned"
    /\ ret' = result
    /\ UNCHANGED <<estimates, bias, legacy_numpy, data, orig, rng, op, f, n, i, result, data2,
                   exc, draws, fcalls>>

\* bias = fairs.mean() - fair(data), line 555, where fairs is what
\* bootstrap_function(data, fair, n) returned (line 408)
Cell_bias ==
    /\ op = "bootstrap_function"
    /\ pc = "returned"
    /\ f = "fair"
    /\ op' = "bias"
    /\ LET r == bias_of(ret, data)
       IN /\ estimates' = Append(estimates, r.point)
          /\ IF r.exc = "none"
             THEN pc' = "returned" /\ bias' = r.val /\ exc' = exc
             ELSE pc' = "raised" /\ bias' = bias /\ exc' = r.exc
    /\ UNCHANGED <<legacy_numpy, data, orig, rng, f, n, i, result, data2,
                   ret, draws, fcalls>>

Next ==
    \/ Cell_fair
    \/ Cell_fair_again
    \/ Cell_bootstrap_data
    \/ \E g \in Estimators, m \in -1..MaxN : Call_bootstrap_function(g, m)
    \/ LoopResample
    \/ LoopEvaluate
    \/ Return
    \/ Cell_bias

Spec == Init /\ [][Next]_vars

\* the notebook on a numpy whose choice() accepts an empty array
InitCurrentNumpy == Init /\ ~legacy_numpy

SpecCurrentNumpy == InitCurrentNumpy /\ [][Next]_vars

\* test_data and the repetition count of the test of bootstrap_function
\* (lines 386-389)
test_data == <<0, 0, 0, 0, 1, 1, 1, 1>>
TestN == 10

\* the words the generator gives under the mean test: one index into each
\* half of test_data.  The indices of one half select equal elements, so
\* these words give every sequence of values a resample can hold.
MeanWords == {0, Len(test_data) \div 2}

\* bootstrap_function(test_data, lambda data: data.mean(), 10), line 389
InitMean ==
    /\ legacy_numpy \in BOOLEAN
    /\ data = test_data
    /\ orig = data
    /\ rng \in [1..MeanPeriod -> MeanWords]
    /\ op = "none"
    /\ pc = "idle"
    /\ f = "none"
    /\ n = 0
    /\ i = 0
    /\ result = <<>>
    /\ data2 = <<>>
    /\ ret = <<>>
    /\ exc = "none"
    /\ draws = <<>>
    /\ fcalls = <<>>
    /\ estimates = <<>>
    /\ bias = Garbage

NextMean ==
    \/ Call_bootstrap_function("mean", TestN)
    \/ LoopResample
    \/ LoopEvaluate
    \/ Return

SpecMean == InitMean /\ [][NextMean]_vars

\* fair alone, on every label sequence of up to FairLen elements
InitFair ==
    /\ legacy_numpy = FALSE
    /\ data \in SeqsUpTo(Labels, FairLen)
    /\ orig = data
    /\ rng = [k \in 1..Period |-> 0]
    /\ op = "none"
    /\ pc = "idle"
    /\ f = "none"
    /\ n = 0
    /\ i = 0
    /\ result = <<>>
    /\ data2 = <<>>
    /\ ret = <<>>
    /\ exc = "none"
    /\ draws = <<>>
    /\ fcalls = <<>>
    /\ estimates = <<>>
    /\ bias = Garbage

NextFair == Cell_fair \/ Cell_fair_again

SpecFair == InitFair /\ [][NextFair]_vars

-----------------------------------------------------------------------------
(* Claims. *)

Terminal == pc \in {"returned", "raised"}

InFunction == op = "bootstrap_function"

\* C1: every call of bootstrap_data on a non-empty array, made by a cell or
\* by bootstrap_function, returns an array as long as its input whose every
\* element occurs in the input, whatever the random source holds.
C1_ResampleLengthAndMembers ==
    /\ \A k \in DOMAIN draws :
          Len(draws[k].a) > 0 =>
             /\ draws[k].exc = "none"
             /\ Len(draws[k].out) = Len(draws[k].a)
             /\ \A j \in DOMAIN draws[k].out :
                   draws[k].out[j] \in Range(draws[k].a)
    /\ (op = "bootstrap_data" /\ Len(orig) > 0) =>
          /\ pc = "returned"
          /\ Len(ret) = Len(orig)
          /\ Range(ret) \subseteq Range(orig)

C1_Witness ==
    /\ op = "bootstrap_data"
    /\ pc = "returned"
    /\ Range(orig) = Labels
    /\ ret # orig
    /\ Range(ret) # Range(orig)

\* C2 as claimed: for every observation sequence, estimator and N >= 0 the
\* call of bootstrap_function ends by returning exactly N values.  (Checked
\* on the numpy whose resampler accepts an empty array, so that what fails
\* is the estimator and not the resampler of C6.)
C2_Original ==
    (InFunction /\ n >= 0 /\ Terminal) => (pc = "returned" /\ Len(ret) = n)

\* C2 as amended: a call of bootstrap_function that returns, returns exactly
\* N values, N >= 0; and the call does not raise when N = 0 or when the
\* observation sequence is non-empty (the estimators fair and constant yield
\* a value on every non-empty resample).
C2_ReturnsExactlyN ==
    /\ (InFunction /\ pc = "returned") => (n >= 0 /\ Len(ret) = n)
    /\ (InFunction /\ n >= 0 /\ (n = 0 \/ Len(orig) > 0)) => pc # "raised"

C2_Witness ==
    /\ InFunction
    /\ pc = "returned"
    /\ n = MaxN
    /\ Len(ret) = MaxN
    /\ Len(orig) > 0

\* C3: when bootstrap_function returns, slot i of the result is the
\* estimator applied to the i-th resample drawn, for every i; the estimator
\* has been invoked once on each resample, in draw order, and on nothing
\* else; no slot is left unwritten; the constant estimator gives N copies of
\* its constant.
C3_SlotIsEstimateOfResample ==
    InFunction =>
       /\ Len(fcalls) <= Len(draws)
       /\ \A k \in DOMAIN fcalls : fcalls[k] = draws[k].out
       /\ pc = "for" =>
             /\ Len(fcalls) = i
             /\ Len(draws) = i
             /\ \A k \in 1..i : result[k] = Apply(f, draws[k].out).val
       /\ pc = "returned" =>
             /\ Len(draws) = n
             /\ Len(fcalls) = n
             /\ \A k \in 1..n : ret[k] = Apply(f, draws[k].out).val
             /\ \A k \in DOMAIN ret : ret[k] # Garbage
             /\ f = "const" => ret = [k \in 1..n |-> Float(1, 1)]

C3_Witness ==
    /\ InFunction
    /\ pc = "returned"
    /\ f = "fair"
    /\ n >= 2
    /\ ret[1] # ret[2]
    /\ draws[1].out # draws[2].out

\* the number of elements of d equal to "H"
CountH(d) == Cardinality({k \in DOMAIN d : d[k] = "H"})

\* C4: on every non-empty label sequence fair returns the number of "H"
\* elements divided by the number of elements, a value in [0, 1]; it returns
\* 0.5 for H,H,T,T, 0.0 for T,T,T,T, 0.75 for H,H,H,T and 1.0 for H,H,H,H.
C4_FairIsFractionOfH ==
    (op = "fair" /\ Len(data) > 0) =>
       /\ pc = "returned"
       /\ ret.num * Len(data) = CountH(data) * ret.den
       /\ ret.den > 0
       /\ FloatLeq(Float(0, 1), ret)
       /\ FloatLeq(ret, Float(1, 1))
       /\ data = <<"H", "H", "T", "T">> => ret = [num |-> 1, den |-> 2]
       /\ data = <<"T", "T", "T", "T">> => ret = [num |-> 0, den |-> 1]
       /\ data = <<"H", "H", "H", "T">> => ret = [num |-> 3, den |-> 4]
       /\ data = <<"H", "H", "H", "H">> => ret = [num |-> 1, den |-> 1]

C4_Witness ==
    /\ op = "fair"
    /\ pc = "returned"
    /\ data = <<"H", "H", "H", "T">>
    /\ ret = [num |-> 3, den |-> 4]

\* C5: fair on an empty sequence ends in a ZeroDivisionError, whether a
\* cell calls it or bootstrap_function does on an empty resample; it never
\* returns 0.0 or any other value.
C5_FairOnEmptyRaises ==
    /\ (op = "fair" /\ Len(data) = 0) =>
          (pc = "raised" /\ exc = "ZeroDivisionError")
    /\ (InFunction /\ f = "fair" /\ pc # "eval" /\ fcalls # <<>>
          /\ fcalls[Len(fcalls)] = <<>>) =>
          (pc = "raised" /\ exc = "ZeroDivisionError" /\ ret = <<>>)

C5_Witness ==
    /\ op = "fair"
    /\ data = <<>>
    /\ pc = "raised"
    /\ exc = "ZeroDivisionError"

\* C6 as claimed: bootstrap_data on an empty array returns the empty array
\* and raises nothing.
C6_Original ==
    (op = "bootstrap_data" /\ Len(orig) = 0) =>
       (pc = "returned" /\ exc = "none" /\ ret = <<>>)

\* C7: bootstrap_function with N = 0 returns an empty collection, draws no
\* resample and never invokes the estimator.
C7_ZeroRepetitions ==
    (InFunction /\ n = 0) =>
       /\ pc \in {"for", "returned"}
       /\ exc = "none"
       /\ draws = <<>>
       /\ fcalls = <<>>
       /\ ret = <<>>
       /\ data2 = <<>>

C7_Witness ==
    /\ InFunction
    /\ n = 0
    /\ pc = "returned"
    /\ ret = <<>>
    /\ Len(data) > 0

\* C8: bootstrap_function with a negative repetition count raises
\* ValueError; nothing is returned, no resample is drawn and the estimator
\* is not invoked.
C8_NegativeCountRaises ==
    (InFunction /\ n < 0) =>
       /\ pc = "raised"
       /\ exc = "ValueError"
       /\ ret = <<>>
       /\ result = <<>>
       /\ draws = <<>>
       /\ fcalls = <<>>

C8_Witness ==
    /\ InFunction
    /\ n < 0
    /\ pc = "raised"
    /\ exc = "ValueError"
    /\ Len(data) > 0

\* C9: the observation array is never changed: after one call of
\* bootstrap_data, and after every call bootstrap_function makes, it holds
\* the elements it held at the start, in the same positions, and every call
\* was handed that same array.
C9_InputNotMutated ==
    /\ data = orig
    /\ \A k \in DOMAIN draws : draws[k].a = orig

C9_Witness ==
    /\ InFunction
    /\ Len(draws) >= 2
    /\ draws[1].out # orig
    /\ draws[2].out # draws[1].out
    /\ data = orig

C12_MeansInUnitInterval ==
    (InFunction /\ f = "mean") =>
       /\ pc # "raised"
       /\ \A k \in 1..i :
             /\ IsNumber(result[k])
             /\ FloatLeq(Float(0, 1), result[k])
             /\ FloatLeq(result[k], Float(1, 1))
       /\ pc = "returned" =>
             /\ Len(ret) = TestN
             /\ \A k \in DOMAIN ret :
                   /\ IsNumber(ret[k])
                   /\ FloatLeq(Float(0, 1), ret[k])
                   /\ FloatLeq(ret[k], Float(1, 1))

C12_Witness ==
    /\ InFunction
    /\ f = "mean"
    /\ pc = "returned"
    /\ orig = test_data
    /\ Len(ret) = TestN
    /\ ret[1] # ret[2]
    /\ \E k \in DOMAIN ret : ret[k] = Float(1, 1)
    /\ \E k \in DOMAIN ret : FloatLess(ret[k], Float(1, 1))

\* C13 as claimed: on the array of four 0s and four 1s, the mean of the 10
\* values bootstrap_function returns for the mean estimator is strictly
\* greater than 0.0 and strictly less than 1.0.
C13_Original ==
    (InFunction /\ f = "mean" /\ pc = "returned") =>
       /\ FloatLess(Float(0, 1), np_mean(ret))
       /\ FloatLess(np_mean(ret), Float(1, 1))

\* C14: the bias is the mean of the values bootstrap_function returned
\* minus the point estimate, and the point estimate is fair evaluated once,
\* on the original observation array and not on a resample.
C14_BiasUsesOriginal ==
    op = "bias" =>
       /\ Len(estimates) = 1
       /\ estimates[1].a = orig
       /\ pc = "returned" =>
             /\ Len(orig) > 0
             /\ bias = FloatSub(np_mean(ret),
                                Float(CountH(orig), Len(orig)))
       /\ pc = "raised" => (Len(orig) = 0 /\ bias = Garbage)

C14_Witness ==
    /\ op = "bias"
    /\ pc = "returned"
    /\ n >= 2
    /\ IsNumber(bias)
    /\ bias.num < 0
    /\ data2 # orig
    /\ fair(data2).val # fair(orig).val

\* C15: every resample bootstrap_function draws is drawn from the original
\* observation array, never from an earlier resample: each call of
\* bootstrap_data is handed the original, its output is what the original
\* and the state of the random source at that call give, it has the
\* original's length and its elements all occur in the original.
C15_ResamplesFromOriginal ==
    (op \in {"bootstrap_function", "bias"}) =>
       \A k \in DOMAIN draws :
          /\ draws[k].a = orig
          /\ draws[k].out = bootstrap_data_from(draws[k].state, orig).val
          /\ draws[k].exc = "none" =>
                /\ Len(draws[k].out) = Len(orig)
                /\ Range(draws[k].out) \subseteq Range(orig)

C15_Witness ==
    /\ InFunction
    /\ pc = "returned"
    /\ Len(draws) >= 2
    /\ Range(orig) = Labels
    /\ Range(draws[1].out) # Labels
    /\ Range(draws[2].out) = Labels

\* the positions 1..Len(d) of an array
Positions(d) == [k \in 1..Len(d) |-> k]

\* the position of the input that word k of the generator state selects
Selected(st, len, k) == (st[k] % len) + 1

\* C16: sampling is with replacement: position k of a resample holds the
\* input element that word k of the random source selects, whatever the
\* other positions hold, and over the states of the random source every one
\* of the n^n selections of positions is an output.
C16_WithReplacement ==
    (op = "bootstrap_data" /\ pc = "returned" /\ Len(orig) > 0) =>
       /\ \A k \in 1..Len(orig) :
             ret[k] = orig[Selected(draws[1].state, Len(orig), k)]
       /\ {bootstrap_data_from(st, Positions(orig)).val : st \in RngStates}
             = [1..Len(orig) -> 1..Len(orig)]

C16_Witness ==
    /\ op = "bootstrap_data"
    /\ pc = "returned"
    /\ Range(orig) = Labels
    /\ ret # orig
    /\ \E p, q \in 1..Len(orig) :
          /\ Cardinality({k \in 1..Len(orig) :
                Selected(draws[1].state, Len(orig), k) = p}) >= 2
          /\ {k \in 1..Len(orig) :
                Selected(draws[1].state, Len(orig), k) = q} = {}
          /\ orig[p] # orig[q]

\* C17: when the estimator fails on a resample inside bootstrap_function,
\* the call ends there with the estimator's error: that invocation is the
\* last one, no further resample is drawn, nothing is returned and no step
\* of the call remains to be taken.
C17_EstimatorErrorSurfaces ==
    InFunction =>
       /\ \A k \in DOMAIN fcalls :
             Apply(f, fcalls[k]).exc # "none" =>
                /\ k = Len(fcalls)
                /\ k = Len(draws)
                /\ k = i + 1
                /\ pc = "raised"
                /\ exc = Apply(f, fcalls[k]).exc
                /\ ret = <<>>
       /\ pc = "raised" => ~ENABLED Next

C17_Witness ==
    /\ InFunction
    /\ pc = "raised"
    /\ exc = "ZeroDivisionError"
    /\ n >= 2
    /\ Len(fcalls) = 1
    /\ Len(draws) = 1
    /\ ret = <<>>

\* the call of bootstrap_function has no step left to take
CallEnded == ~ENABLED (LoopResample \/ LoopEvaluate \/ Return)

\* C18 as claimed: for every input, estimator and N >= 0, bootstrap_function
\* ends by returning, after exactly N loop iterations.  (Checked on the
\* numpy whose resampler accepts an empty array, so that what fails is the
\* estimator and not the resampler of C6.)
C18_Original ==
    (InFunction /\ n >= 0 /\ CallEnded) =>
       (pc = "returned" /\ i = n /\ Len(draws) = n)

\* the steps the call of bootstrap_function can still take, at most
StepsLeft ==
    IF pc = "for" THEN 2 * (n - i) + 2
    ELSE IF pc = "eval" THEN 2 * (n - i) + 1
    ELSE 0

\* C18 as amended: every call of bootstrap_function ends: until it has
\* returned or raised it has a step to take, and each step leaves fewer
\* steps to take.  It never makes more than N iterations; when it returns
\* it has made exactly N, and when it raises for N >= 0 it does so inside
\* an iteration, before the N-th is complete.
C18_Terminates ==
    /\ []((InFunction /\ ~Terminal) => (~CallEnded /\ StepsLeft > 0))
    /\ [][(InFunction /\ ~Terminal) =>
             (StepsLeft' >= 0 /\ StepsLeft' < StepsLeft)]_vars
    /\ []((InFunction /\ n >= 0) => (i <= n /\ Len(draws) <= n))
    /\ []((InFunction /\ pc = "returned") =>
             (n >= 0 /\ i = n /\ Len(draws) = n /\ Len(fcalls) = n))
    /\ []((InFunction /\ pc = "raised" /\ n >= 0) =>
             (i < n /\ Len(draws) = i + 1))

C18_Witness ==
    /\ InFunction
    /\ pc = "returned"
    /\ CallEnded
    /\ n = MaxN
    /\ i = MaxN
    /\ Len(draws) = MaxN
    /\ Len(orig) = MaxLen


\* the orderings of m positions
Permutations ==
    [m \in 0..FairLen |->
       {p \in [1..m -> 1..m] : \A a, b \in 1..m : p[a] = p[b] => a = b}]

\* the array d taken in the order p
Permuted(d, p) == [k \in 1..Len(d) |-> d[p[k]]]

\* C19: fair depends on the labels it is given, not on their order: on a
\* non-empty sequence it returns a value, it returns that same value on
\* every permutation of the sequence, and on every sequence of the same
\* length with the same number of "H" elements.
C19_FairIgnoresOrder ==
    (op = "fair" /\ Len(data) > 0) =>
       /\ pc = "returned"
       /\ \A p \in Permutations[Len(data)] :
             fair(Permuted(data, p)) = Value(ret)
       /\ \A e \in SeqsUpTo(Labels, FairLen) :
             (Len(e) = Len(data) /\ CountH(e) = CountH(data)) =>
                fair(e) = Value(ret)

C19_Witness ==
    /\ op = "fair"
    /\ pc = "returned"
    /\ data = <<"T", "H", "T">>
    /\ ret = [num |-> 1, den |-> 3]
    /\ \E p \in Permutations[Len(data)] :
          /\ Permuted(data, p) = <<"H", "T", "T">>
          /\ fair(Permuted(data, p)) = Value(ret)

=============================================================================
